---- MODULE Spec2Model ----
(***************************************************************************)
(* Model of src/private_key.rs: the PrivateKey value type, its byte and    *)
(* text encodings, signing, public key derivation, equality and hashing.   *)
(* Byte strings are sequences over 0..255, texts are sequences of          *)
(* one-character strings.  Lengths are the program's own (32, 48, 64).     *)
(***************************************************************************)
EXTENDS Integers, Sequences, FiniteSets, TLC

\* ------------------------------------------------------------------ bounds
\* number of PrivateKey values alive at the same time
MaxKeys == 2
\* number of generated 32-byte seeds offered as inputs
NumSeeds == 2

\* --------------------------------------------------------------- constants
SECRET_KEY_LENGTH == 32

DER_PREFIX ==
  <<"3", "0", "2", "e", "0", "2", "0", "1", "0", "0", "3", "0", "0", "5", "0",
    "6", "0", "3", "2", "b", "6", "5", "7", "0", "0", "4", "2", "2", "0", "4",
    "2", "0">>

\* Result<T, E>
Ok(v) == [ok |-> TRUE, val |-> v]
Err(e) == [ok |-> FALSE, err |-> e]

\* Option<T>
None == <<>>
Some(v) == <<v>>

\* ------------------------------------------------------------ hex (crate)
HEX_CHARS_LOWER ==
  <<"0", "1", "2", "3", "4", "5", "6", "7", "8", "9", "a", "b", "c", "d", "e", "f">>

HEX_CHARS_UPPER ==
  <<"0", "1", "2", "3", "4", "5", "6", "7", "8", "9", "A", "B", "C", "D", "E", "F">>

\* hex::encode : two lowercase digits per byte, high nibble first
HexEncode(bytes) ==
  [i \in 1..(2 * Len(bytes)) |->
     LET b == bytes[(i + 1) \div 2] IN
     IF i % 2 = 1 THEN HEX_CHARS_LOWER[(b \div 16) + 1]
                  ELSE HEX_CHARS_LOWER[(b % 16) + 1]]

\* value of every hex digit, in either case
HexDigitValue ==
  [c \in { HEX_CHARS_LOWER[d] : d \in 1..16 } \cup { HEX_CHARS_UPPER[d] : d \in 1..16 } |->
     IF \E d \in 1..16 : HEX_CHARS_LOWER[d] = c
     THEN (CHOOSE d \in 1..16 : HEX_CHARS_LOWER[d] = c) - 1
     ELSE (CHOOSE d \in 1..16 : HEX_CHARS_UPPER[d] = c) - 1]

\* value of one hex digit, -1 when the character is not a hex digit
HexVal(c) == IF c \in DOMAIN HexDigitValue THEN HexDigitValue[c] ELSE -1

\* hex::decode : odd length is rejected first, then every pair is parsed
HexDecode(text) ==
  IF Len(text) % 2 # 0 THEN Err([kind |-> "Hex", cause |-> "OddLength"])
  ELSE IF \E i \in 1..Len(text) : HexVal(text[i]) = -1
  THEN Err([kind |-> "Hex", cause |-> "InvalidHexCharacter"])
  ELSE Ok([i \in 1..(Len(text) \div 2) |->
             16 * HexVal(text[2 * i - 1]) + HexVal(text[2 * i])])

\* Lazy::new(|| hex::decode(DER_PREFIX).unwrap())
DER_PREFIX_BYTES == HexDecode(DER_PREFIX).val

\* ------------------------------------------------- ed25519_dalek (crate)
\* PublicKey::from(&secret): a deterministic, injective function of the seed
PublicKeyFrom(secret) == <<"public", secret>>

\* Keypair::sign: deterministic in (secret, public, message)
KeypairSign(keypair, message) ==
  <<"signature", keypair.secret, keypair.public, message>>

\* SecretKey::from_bytes: rejects anything that is not SECRET_KEY_LENGTH long
SecretKeyFromBytes(bytes) ==
  IF Len(bytes) # SECRET_KEY_LENGTH THEN Err([kind |-> "Signature"])
  ELSE Ok(bytes)

\* ------------------------------------------------------------ private_key
\* slice.starts_with(prefix)
starts_with(data, prefix) ==
  /\ Len(data) >= Len(prefix)
  /\ SubSeq(data, 1, Len(prefix)) = prefix

\* ed25519 scalar clamping of a 32-byte string
Clamp(bytes) ==
  [bytes EXCEPT ![1] = bytes[1] - (bytes[1] % 8),
                ![32] = (bytes[32] % 64) + 64]

\* variant: the public half derived from the clamped scalar, not from the seed
to_keypair_clamped(entropy) ==
  LET secret == SecretKeyFromBytes(SubSeq(entropy, 1, 32)) IN
  IF ~secret.ok THEN secret
  ELSE Ok([public |-> PublicKeyFrom(Clamp(secret.val)), secret |-> secret.val])

to_keypair(entropy) ==
  LET secret == SecretKeyFromBytes(SubSeq(entropy, 1, 32)) IN
  IF ~secret.ok THEN secret
  ELSE Ok([public |-> PublicKeyFrom(secret.val), secret |-> secret.val])

\* variant: the second half of the entropy is dropped
generate_no_chain(entropy) ==
  [keypair    |-> to_keypair(SubSeq(entropy, 1, 32)).val,
   chain_code |-> None]

generate(entropy) ==
  [keypair    |-> to_keypair(SubSeq(entropy, 1, 32)).val,
   chain_code |-> Some(SubSeq(entropy, 33, 64))]

\* Self { keypair: to_keypair(..)?, chain_code: None }
NewParsed(kp) ==
  IF ~kp.ok THEN kp
  ELSE Ok([keypair |-> kp.val, chain_code |-> None])

\* variant: the 64-byte arm keeps the trailing half
from_bytes_tail(data) ==
  IF Len(data) = 32 THEN NewParsed(to_keypair(data))
  ELSE IF Len(data) = 48 /\ starts_with(data, DER_PREFIX_BYTES)
  THEN NewParsed(to_keypair(SubSeq(data, 17, Len(data))))
  ELSE IF Len(data) = 64
  THEN NewParsed(to_keypair(SubSeq(data, SECRET_KEY_LENGTH + 1, Len(data))))
  ELSE Err([kind |-> "Length", n |-> Len(data)])

\* variant: the 48-byte arm without its prefix guard
from_bytes_unguarded(data) ==
  IF Len(data) = 32 THEN NewParsed(to_keypair(data))
  ELSE IF Len(data) = 48
  THEN NewParsed(to_keypair(SubSeq(data, 17, Len(data))))
  ELSE IF Len(data) = 64
  THEN NewParsed(to_keypair(SubSeq(data, 1, SECRET_KEY_LENGTH)))
  ELSE Err([kind |-> "Length", n |-> Len(data)])

from_bytes(data) ==
  IF Len(data) = 32 THEN NewParsed(to_keypair(data))
  ELSE IF Len(data) = 48 /\ starts_with(data, DER_PREFIX_BYTES)
  THEN NewParsed(to_keypair(SubSeq(data, 17, Len(data))))
  ELSE IF Len(data) = 64
  THEN NewParsed(to_keypair(SubSeq(data, 1, SECRET_KEY_LENGTH)))
  ELSE Err([kind |-> "Length", n |-> Len(data)])

to_bytes(self) == self.keypair.secret

\* variant: the chain code, when present, is signed along with the message
sign_with_chain(self, data) ==
  KeypairSign(self.keypair,
              IF self.chain_code = None THEN data ELSE data \o self.chain_code[1])

sign(self, data) == KeypairSign(self.keypair, data)

public_key(self) == self.keypair.public

\* what Hash::hash feeds to the hasher: the slice length, then the bytes
hash(self) == <<Len(self.keypair.secret), self.keypair.secret>>

\* variant: field-wise equality, as #[derive(PartialEq)] would give
eq_derived(self, other) ==
  /\ self.keypair.secret = other.keypair.secret
  /\ self.chain_code = other.chain_code

eq(self, other) == self.keypair.secret = other.keypair.secret

as_ref(self) == self.keypair.secret

\* variant: the two format arguments in the other order
fmt_swapped(self) == HexEncode(as_ref(self)) \o DER_PREFIX

\* variant: the prefix argument left out
fmt_bare(self) == HexEncode(as_ref(self))

\* variant: the prefix written as text and again as encoded bytes
fmt_twice(self) == DER_PREFIX \o HexEncode(DER_PREFIX_BYTES \o as_ref(self))

\* Display::fmt, and so to_string()
fmt(self) == DER_PREFIX \o HexEncode(as_ref(self))

\* the From<FromHexError> conversion applied by `?`
KeyErrorFromHex(e) == [kind |-> "Hex", cause |-> e.cause]

\* variant: the size of the text is judged before it is decoded
from_str_length_first(text) ==
  IF Len(text) \notin {64, 96, 128}
  THEN Err([kind |-> "Length", n |-> Len(text) \div 2])
  ELSE LET decoded == HexDecode(text) IN
       IF ~decoded.ok THEN Err(KeyErrorFromHex(decoded.err))
       ELSE from_bytes(decoded.val)

from_str(text) ==
  LET decoded == HexDecode(text) IN
  IF ~decoded.ok THEN Err(KeyErrorFromHex(decoded.err))
  ELSE from_bytes(decoded.val)

\* ------------------------------------------------------------------ inputs
\* tests::PRIVATE_KEY_BYTES
PRIVATE_KEY_BYTES ==
  <<64, 114, 211, 101, 208, 33, 153, 181, 16, 51, 54, 207, 106, 24, 117, 120,
    255, 182, 235, 164, 173, 111, 139, 35, 131, 197, 204, 84, 208, 12, 68, 9>>

\* tests::PRIVATE_KEY_STR
PRIVATE_KEY_STR ==
  DER_PREFIX \o
  <<"4", "0", "7", "2", "d", "3", "6", "5", "d", "0", "2", "1", "9", "9", "b",
    "5", "1", "0", "3", "3", "3", "6", "c", "f", "6", "a", "1", "8", "7", "5",
    "7", "8", "f", "f", "b", "6", "e", "b", "a", "4", "a", "d", "6", "f", "8",
    "b", "2", "3", "8", "3", "c", "5", "c", "c", "5", "4", "d", "0", "0", "c",
    "4", "4", "0", "9">>

\* b"This is a test" (tests::test_sign) and the empty message
Messages ==
  { <<84, 104, 105, 115, 32, 105, 115, 32, 97, 32, 116, 101, 115, 116>>, <<>> }

\* a 32-byte block that differs from one index to the next
Block(i) == [j \in 1..32 |-> (i * 37 + j * 11) % 256]

\* 32-byte seeds: generated blocks, the test vector, and a seed that itself
\* begins with the DER prefix bytes
Seeds ==
  { Block(i) : i \in 1..NumSeeds }
    \cup { PRIVATE_KEY_BYTES, DER_PREFIX_BYTES \o SubSeq(Block(1), 1, 16) }

\* second halves of 64-byte buffers
Tails == { Block(0), PRIVATE_KEY_BYTES }

\* the DER prefix with its last byte changed
NearPrefix == [DER_PREFIX_BYTES EXCEPT ![16] = 33]

\* what thread_rng().fill(&mut entropy[..]) may leave in the 64-byte buffer
Entropies == { s \o t : s \in Seeds, t \in Tails }

WellSized ==
  Seeds
    \cup { DER_PREFIX_BYTES \o s : s \in Seeds }
    \cup { s \o t : s \in Seeds, t \in Tails }

ByteInputs ==
  WellSized
    \cup { NearPrefix \o s : s \in Seeds }
    \cup { s \o DER_PREFIX_BYTES : s \in Seeds }
    \cup { SubSeq(d, 1, Len(d) - 1) : d \in { Block(1), DER_PREFIX_BYTES \o Block(1), Block(1) \o Block(0) } }
    \cup { Append(d, 0) : d \in { Block(1), DER_PREFIX_BYTES \o Block(1), Block(1) \o Block(0) } }
    \cup { <<>>, DER_PREFIX_BYTES, DER_PREFIX_BYTES \o Block(1) \o Block(0) }

\* upper-case spelling of a lower-case hex text
ToUpper(text) ==
  [i \in 1..Len(text) |->
     IF HexVal(text[i]) = -1 THEN text[i] ELSE HEX_CHARS_UPPER[HexVal(text[i]) + 1]]

TextInputs ==
  { HexEncode(d) : d \in ByteInputs }
    \cup { PRIVATE_KEY_STR, ToUpper(PRIVATE_KEY_STR) }
    \cup { ToUpper(HexEncode(Block(1))) }
    \* odd number of characters
    \cup { SubSeq(PRIVATE_KEY_STR, 1, 95), SubSeq(PRIVATE_KEY_STR, 1, 63), <<"a">> }
    \* a character that is not a hex digit, at lengths 64, 96, 128 and 4
    \cup { [HexEncode(d) EXCEPT ![Len(d)] = "g"] : d \in { Block(1), DER_PREFIX_BYTES \o Block(1), Block(1) \o Block(0) } }
    \cup { [PRIVATE_KEY_STR EXCEPT ![96] = "x"], <<"0", "x", "4", "0">> }
    \* odd length and a bad character at once
    \cup { <<"z", "1", "2">> }

\* ------------------------------------------------------------------- state
\* keys   : the PrivateKey values alive, each with the constructor that made it
\* result : the last operation, its arguments and what it returned
VARIABLES keys, result

vars == <<keys, result>>

Live == { e.key : e \in keys }

Init ==
  /\ keys = {}
  /\ result = [op |-> "none", args |-> <<>>, res |-> <<>>]

Generate ==
  /\ Cardinality(keys) < MaxKeys
  /\ \E entropy \in Entropies :
       LET k == generate(entropy) IN
       /\ keys' = keys \cup { [key |-> k, by |-> "generate"] }
       /\ result' = [op |-> "generate", args |-> <<entropy>>, res |-> k]

FromBytes ==
  /\ Cardinality(keys) < MaxKeys
  /\ \E data \in ByteInputs :
    LET r == from_bytes(data) IN
    /\ keys' = IF r.ok THEN keys \cup { [key |-> r.val, by |-> "from_bytes"] } ELSE keys
    /\ result' = [op |-> "from_bytes", args |-> <<data>>, res |-> r]

FromStr ==
  /\ Cardinality(keys) < MaxKeys
  /\ \E text \in TextInputs \cup { fmt(k) : k \in Live } :
    LET r == from_str(text) IN
    /\ keys' = IF r.ok THEN keys \cup { [key |-> r.val, by |-> "from_str"] } ELSE keys
    /\ result' = [op |-> "from_str", args |-> <<text>>, res |-> r]

ToBytes ==
  \E k \in Live :
    /\ result' = [op |-> "to_bytes", args |-> <<k>>, res |-> to_bytes(k)]
    /\ UNCHANGED keys

Display ==
  \E k \in Live :
    /\ result' = [op |-> "to_string", args |-> <<k>>, res |-> fmt(k)]
    /\ UNCHANGED keys

Sign ==
  \E k \in Live, data \in Messages :
    /\ result' = [op |-> "sign", args |-> <<k, data>>, res |-> sign(k, data)]
    /\ UNCHANGED keys

GetPublicKey ==
  \E k \in Live :
    /\ result' = [op |-> "public_key", args |-> <<k>>, res |-> public_key(k)]
    /\ UNCHANGED keys

Compare ==
  \E a \in Live, b \in Live :
    /\ result' = [op |-> "eq", args |-> <<a, b>>,
                  res |-> [eq |-> eq(a, b), hash_a |-> hash(a), hash_b |-> hash(b)]]
    /\ UNCHANGED keys

Next ==
  \/ Generate
  \/ FromBytes
  \/ FromStr
  \/ ToBytes
  \/ Display
  \/ Sign
  \/ GetPublicKey
  \/ Compare

Spec == Init /\ [][Next]_vars

\* ------------------------------------------------------------- properties
LowerHexDigits ==
  {"0", "1", "2", "3", "4", "5", "6", "7", "8", "9", "a", "b", "c", "d", "e", "f"}

UpperHexDigits == {"A", "B", "C", "D", "E", "F"}

\* text that hex decoding accepts: an even number of hex digits
IsValidHex(text) ==
  /\ Len(text) % 2 = 0
  /\ \A i \in 1..Len(text) : text[i] \in LowerHexDigits \cup UpperHexDigits

\* the 16 bytes spelled by DER_PREFIX
DerBytes == <<48, 46, 2, 1, 0, 48, 5, 6, 3, 43, 101, 112, 4, 34, 4, 32>>

HasDerBytes(data) == Len(data) >= 16 /\ \A i \in 1..16 : data[i] = DerBytes[i]

\* the canonical text shape: prefix literal, then 64 lower-case hex digits
IsCanonical(text) ==
  /\ Len(text) = 96
  /\ SubSeq(text, 1, 32) = DER_PREFIX
  /\ \A i \in 33..96 : text[i] \in LowerHexDigits

\* C1: when from_bytes succeeds, to_bytes of the key is the seed the dispatch
\* table selects: the whole buffer at length 32, bytes [16..48) at length 48
\* behind the DER prefix, bytes [0..32) at length 64; the trailing 32 bytes of
\* a 64-byte buffer have no influence on the key.
C1_SeedSelection ==
  (result.op = "from_bytes" /\ result.res.ok) =>
    LET data == result.args[1]
        k == result.res.val
    IN /\ Len(data) \in {32, 48, 64}
       /\ Len(data) = 32 => to_bytes(k) = data
       /\ Len(data) = 48 => HasDerBytes(data) /\ to_bytes(k) = SubSeq(data, 17, 48)
       /\ Len(data) = 64 => to_bytes(k) = SubSeq(data, 1, 32)
       /\ Len(data) = 64 =>
            \A other \in ByteInputs :
              (Len(other) = 64 /\ SubSeq(other, 1, 32) = SubSeq(data, 1, 32))
                => from_bytes(other) = result.res

C1_Witness ==
  /\ result.op = "from_bytes"
  /\ result.res.ok
  /\ Len(result.args[1]) = 64
  /\ SubSeq(result.args[1], 33, 64) # SubSeq(result.args[1], 1, 32)
  /\ to_bytes(result.res.val) = SubSeq(result.args[1], 1, 32)

\* C2: from_bytes fails with LengthError(n), n the length of the input, for
\* every length outside {32, 48, 64} and for every 48-byte input that does not
\* start with the DER prefix; no such input becomes a key.
C2_LengthError ==
  result.op = "from_bytes" =>
    LET data == result.args[1] IN
    (Len(data) \notin {32, 48, 64} \/ (Len(data) = 48 /\ ~HasDerBytes(data)))
      => /\ ~result.res.ok
         /\ result.res.err = [kind |-> "Length", n |-> Len(data)]

C2_Witness ==
  /\ result.op = "from_bytes"
  /\ Len(result.args[1]) = 48
  /\ SubSeq(result.args[1], 1, 15) = SubSeq(DerBytes, 1, 15)
  /\ ~result.res.ok
  /\ result.res.err = [kind |-> "Length", n |-> 48]

\* C3: for every constructed key k, from_str(to_string(k)) succeeds and gives
\* a key equal to k, with the same 32 secret bytes.
C3_TextRoundTrip ==
  \A k \in Live :
    (result.op = "from_str" /\ result.args[1] = fmt(k)) =>
      /\ result.res.ok
      /\ eq(result.res.val, k)
      /\ to_bytes(result.res.val) = to_bytes(k)

C3_Witness ==
  \E e \in keys :
    /\ e.by = "generate"
    /\ result.op = "from_str"
    /\ result.args[1] = fmt(e.key)
    /\ result.res.ok
    /\ result.res.val # e.key

\* C4: to_string(k) is the DER prefix literal followed by the lower-case hex of
\* the 32 secret bytes, 96 characters, whatever encoding made the key and
\* whether or not it has a chain code; and a text already in that form is
\* reproduced exactly by to_string(from_str(t)).
C4_CanonicalText ==
  /\ result.op = "to_string" =>
       /\ IsCanonical(result.res)
       /\ HexDecode(SubSeq(result.res, 33, 96)) = Ok(to_bytes(result.args[1]))
  /\ (result.op = "from_str" /\ IsCanonical(result.args[1])) =>
       /\ result.res.ok
       /\ fmt(result.res.val) = result.args[1]

C4_Witness ==
  /\ result.op = "to_string"
  /\ result.args[1].chain_code # None
  /\ IsCanonical(result.res)

\* C5 as stated: the canonical text is 66 literal characters plus 64 hex
\* characters, 130 characters in all.
C5_Original ==
  result.op = "to_string" =>
    /\ Len(DER_PREFIX) = 66
    /\ Len(result.res) = 130

\* C5 as amended: the canonical text is 32 literal characters plus 64 hex
\* characters of the secret, 96 characters in all.
C5_TextLength ==
  result.op = "to_string" =>
    /\ Len(DER_PREFIX) = 32
    /\ Len(result.res) - Len(DER_PREFIX) = 2 * Len(to_bytes(result.args[1]))
    /\ Len(result.res) - Len(DER_PREFIX) = 64
    /\ Len(result.res) = 96

C5_Witness ==
  /\ result.op = "to_string"
  /\ result.args[1].chain_code = None
  /\ Len(result.res) = 96

\* C6: a == b exactly when the secret bytes are equal, and equal keys hash
\* identically, whatever the chain codes and the encodings the keys came from.
C6_SecretOnlyIdentity ==
  result.op = "eq" =>
    LET a == result.args[1]
        b == result.args[2]
    IN /\ result.res.eq <=> (to_bytes(a) = to_bytes(b))
       /\ result.res.eq => result.res.hash_a = result.res.hash_b

C6_Witness ==
  /\ result.op = "eq"
  /\ result.res.eq
  /\ result.res.hash_a = result.res.hash_b
  /\ result.args[1].chain_code # result.args[2].chain_code

\* C7: every key that exists has a public component that is the derivation of
\* its own secret bytes, and public_key() returns that stored component.
C7_PublicDerived ==
  /\ \A k \in Live :
       /\ k.keypair.public = PublicKeyFrom(k.keypair.secret)
       /\ public_key(k) = k.keypair.public
  /\ result.op = "public_key" =>
       result.res = PublicKeyFrom(to_bytes(result.args[1]))

C7_Witness ==
  /\ result.op = "public_key"
  /\ \E e \in keys : e.key = result.args[1] /\ e.by = "from_bytes"
  /\ result.res = PublicKeyFrom(to_bytes(result.args[1]))

\* C8: from_str fails with the hex error kind whenever the text is not valid
\* hex, whatever its length; the length check sees only decoded bytes, so
\* valid hex of an unsupported decoded length gives LengthError.
C8_HexBeforeLength ==
  result.op = "from_str" =>
    LET text == result.args[1] IN
    /\ ~IsValidHex(text) =>
         (~result.res.ok /\ result.res.err.kind = "Hex")
    /\ (IsValidHex(text) /\ (Len(text) \div 2) \notin {32, 48, 64}) =>
         (~result.res.ok /\ result.res.err = [kind |-> "Length", n |-> Len(text) \div 2])

C8_Witness ==
  /\ result.op = "from_str"
  /\ ~IsValidHex(result.args[1])
  /\ Len(result.args[1]) \notin {64, 96, 128}
  /\ ~result.res.ok
  /\ result.res.err.kind = "Hex"

\* C9: sign(k, m) is the primitive's signature of m under k's stored keypair;
\* signing m again with the same key, or with another key that has the same
\* secret, gives the same bytes, and the key signed with is left as it was.
C9_SignDeterministic ==
  result.op = "sign" =>
    LET k == result.args[1]
        m == result.args[2]
    IN /\ result.res = KeypairSign(k.keypair, m)
       /\ k \in Live
       /\ \A other \in Live :
            to_bytes(other) = to_bytes(k) => sign(other, m) = result.res

C9_Witness ==
  /\ result.op = "sign"
  /\ \E other \in Live :
       /\ other # result.args[1]
       /\ to_bytes(other) = to_bytes(result.args[1])
       /\ sign(other, result.args[2]) = result.res

\* C10: generate() returns a key with a 32-byte secret (the first half of the
\* entropy) and a chain code (the second half); keys from from_bytes and
\* from_str have none; so a key has a chain code exactly when generate made it.
C10_ChainCodeProvenance ==
  /\ \A e \in keys :
       /\ Len(to_bytes(e.key)) = 32
       /\ (e.key.chain_code # None) <=> (e.by = "generate")
  /\ result.op = "generate" =>
       /\ to_bytes(result.res) = SubSeq(result.args[1], 1, 32)
       /\ result.res.chain_code = Some(SubSeq(result.args[1], 33, 64))
  /\ (result.op \in {"from_bytes", "from_str"} /\ result.res.ok) =>
       result.res.val.chain_code = None

C10_Witness ==
  /\ result.op = "generate"
  /\ result.res.chain_code # None
  /\ \E e \in keys : e.by # "generate" /\ to_bytes(e.key) = to_bytes(result.res)

====
